---- MODULE Spec2Model ----
(***************************************************************************)
(* broodminder-scan: the advertisement parser (parseAdvertisement and its  *)
(* field decoders), the dedup tracker (isNew / isFirstDiscovery) and the   *)
(* scan flow of main (context, duration timer, signal, scan callback).     *)
(*                                                                         *)
(* Units: temperatures and weights are integers in hundredths (of a degree *)
(* Celsius, of a kg).  The Go code computes them in float64 and rounds to  *)
(* two decimals; for every 16-bit raw value the intermediate products are  *)
(* far from a rounding boundary except the exact halves of the legacy      *)
(* formula, which float64 represents exactly, so the integers below are    *)
(* the values the code stores.  The Fahrenheit fields and the firmware     *)
(* string are renderings of fields kept here and are not modelled.         *)
(***************************************************************************)
EXTENDS Integers, Sequences, FiniteSets, TLC

(***************************************************************************)
(* Bounds of the model.                                                    *)
(***************************************************************************)
\* longest payload the parser is applied to (the full layout has 21 bytes)
MaxPayloadLen == 22
\* number of scan results the adapter delivers in one run
MaxDeliveries == 2
\* tracker calls made by the test goroutines of TrackerSpec
MaxCalls == 3
\* scan results handed to the Go callback and to the script in SeqSpec
MaxAdverts == 4
\* number of scan callbacks that may run at the same time

(***************************************************************************)
(* Program constants (main.go).                                            *)
(***************************************************************************)
broodMinderManufacturerID == 653
modelT == 41
modelTH == 42
modelW == 43
modelT2 == 47
modelW3 == 49
modelSubHub == 52
modelHub4G == 54
modelTH2 == 56
modelWPlus == 57
modelDIY == 58
modelHubWF == 60
modelBeeDar == 63

legacyTempModels == {modelT, modelTH, modelW}
\* the no-humidity set without the SubHub
noHumidityModelsNoSubHub == {modelT, modelT2, modelW3}

noHumidityModels == {modelT, modelT2, modelW3, modelSubHub}
weightModels == {modelW, modelWPlus, modelW3, modelDIY}
fourCellWeightModels == {modelW3, modelDIY}
\* a swarm set that shares the W3 with the four-cell set
swarmModelsOverlapping == {modelT2, modelTH2, modelW3}

swarmModels == {modelT2, modelTH2}
\* 0x7FFF, 0x8005, 0xFFFF
\* the sentinels without 0x8005
weightSentinelsTwo == {32767, 65535}

weightSentinels == {32767, 32773, 65535}

Bytes == 0..255

(***************************************************************************)
(* Byte access.  Go indexes from 0; a TLA+ sequence from 1.                *)
(***************************************************************************)
ByteAt(data, i) == data[i + 1]

\* the two bytes taken in big-endian order
BigEndianUint16(data, lo) == 256 * ByteAt(data, lo) + ByteAt(data, lo + 1)

\* binary.LittleEndian.Uint16(data[lo:lo+2])
LittleEndianUint16(data, lo) == ByteAt(data, lo) + 256 * ByteAt(data, lo + 1)

\* math.Round of the rational num/den (den > 0): half away from zero
RoundHalfAway(num, den) ==
    IF num >= 0 THEN (2 * num + den) \div (2 * den)
    ELSE -((2 * (-num) + den) \div (2 * den))

\* no clamp: the first argument as it is
MinFirst(a, b) == a

Min(a, b) == IF a < b THEN a ELSE b

(***************************************************************************)
(* strings.ToUpper on an address.  An address is a sequence of ASCII       *)
(* codes; the letters a..z (97..122) map to A..Z (65..90).                 *)
(***************************************************************************)
UpperChar(c) == IF c >= 97 /\ c <= 122 THEN c - 32 ELSE c

\* the address taken as it is
ToUpperNot(s) == s

ToUpper(s) == [i \in 1..Len(s) |-> UpperChar(s[i])]

(***************************************************************************)
(* modelName                                                               *)
(***************************************************************************)
\* fmt's %d of a byte: the decimal digits, most significant first
DecimalDigits == <<"0", "1", "2", "3", "4", "5", "6", "7", "8", "9">>

\* %03d in place of %d
FormatDecimalPadded(n) ==
    DecimalDigits[((n \div 100) % 10) + 1] \o DecimalDigits[((n \div 10) % 10) + 1]
        \o DecimalDigits[(n % 10) + 1]

RECURSIVE FormatDecimal(_)
FormatDecimal(n) ==
    IF n < 10 THEN DecimalDigits[n + 1]
    ELSE FormatDecimal(n \div 10) \o DecimalDigits[(n % 10) + 1]

modelName(b) ==
    CASE b = modelT -> "T"
      [] b = modelTH -> "TH"
      [] b = modelW -> "W"
      [] b = modelT2 -> "T2"
      [] b = modelW3 -> "W3"
      [] b = modelSubHub -> "SubHub"
      [] b = modelHub4G -> "Hub4G"
      [] b = modelTH2 -> "TH2"
      [] b = modelWPlus -> "W+"
      [] b = modelDIY -> "DIY"
      [] b = modelHubWF -> "HubWF"
      [] b = modelBeeDar -> "BeeDar"
      [] OTHER -> "?(" \o FormatDecimal(b) \o ")"

(***************************************************************************)
(* parseTemperature.  The result is the exact rational value of the float  *)
(* the code returns, in hundredths of a degree, as a numerator over        *)
(* TempDen: legacy (raw/65536)*165 - 40 is (raw*4125)/16384 - 4000         *)
(* hundredths, current is raw - 5000 hundredths, and 0xFFFF gives 0.       *)
(* (The numerators stay below 2^30, inside the checker's integers.)        *)
(***************************************************************************)
TempDen == 16384

\* parseTemperature without the test for 0xFFFF
parseTemperatureNoSentinel(model, raw) ==
    IF model \in legacyTempModels THEN raw * 4125 - 4000 * TempDen
    ELSE (raw - 5000) * TempDen

parseTemperature(model, raw) ==
    IF raw = 65535 THEN 0
    ELSE IF model \in legacyTempModels THEN raw * 4125 - 4000 * TempDen
    ELSE (raw - 5000) * TempDen

\* math.Round(parseTemperature(...)*100) / 100, in hundredths
RoundedTemperature(model, raw) == RoundHalfAway(parseTemperature(model, raw), TempDen)

(***************************************************************************)
(* parseWeight: (hundredths of a kg, valid)                                *)
(***************************************************************************)
parseWeight(model, raw) ==
    IF model \notin weightModels THEN [kg |-> 0, ok |-> FALSE]
    ELSE IF raw \in weightSentinels THEN [kg |-> 0, ok |-> FALSE]
    ELSE [kg |-> raw - 32767, ok |-> TRUE]

(***************************************************************************)
(* parseAdvertisement.  The result is                                      *)
(*   [kind |-> "error", got, need]   the return of nil and an error,       *)
(*   [kind |-> "reading", reading]   the return of a Reading and no error, *)
(*   [kind |-> "panic"]              an index out of range at run time.    *)
(* A field the code does not assign keeps Go's zero value (FALSE, 0).      *)
(***************************************************************************)
MinPayloadLen == 15

\* bytes read without any further length test (main.go 244-257)
FixedReads == {0, 1, 2, 4, 5, 6, 7, 8}

\* the realtime block entered for every model
RealtimeGuardAnyModel(data, model) == Len(data) >= 10

RealtimeGuard(data, model) == Len(data) >= 10 /\ model \notin legacyTempModels

WeightGuard(data) == Len(data) >= 14

HumidityGuard(data, model) == Len(data) >= 15 /\ model \notin noHumidityModels

ExtendedGuard(data) == Len(data) >= 19

FourCellGuard(data, model) == ExtendedGuard(data) /\ model \in fourCellWeightModels

\* the swarm block without its own length test
SwarmGuardNoLen(data, model) == ExtendedGuard(data) /\ model \in swarmModels

SwarmGuard(data, model) ==
    ExtendedGuard(data) /\ model \in swarmModels /\ Len(data) >= 20

RealtimeWeightGuard(data, model) ==
    Len(data) >= 21 /\ model \in weightModels /\ model \notin legacyTempModels

\* the indices the guarded blocks read
GuardedReads(data, model) ==
    (IF RealtimeGuard(data, model) THEN {3, 9} ELSE {})
    \cup (IF WeightGuard(data) THEN {10, 11, 12, 13} ELSE {})
    \cup (IF HumidityGuard(data, model) THEN {14} ELSE {})
    \cup (IF FourCellGuard(data, model) THEN {15, 16, 17, 18} ELSE {})
    \cup (IF SwarmGuard(data, model) THEN {19} ELSE {})
    \cup (IF RealtimeWeightGuard(data, model) THEN {19, 20} ELSE {})

\* realtime temperature (main.go 261-269)
RealtimeRaw(data) == ByteAt(data, 3) + 256 * ByteAt(data, 9)

RealtimePart(data, model) ==
    IF RealtimeGuard(data, model)
       /\ RealtimeRaw(data) # 65535 /\ RealtimeRaw(data) # 0
    THEN [HasRealtime |-> TRUE,
          RealtimeTempC |-> RoundedTemperature(model, RealtimeRaw(data))]
    ELSE [HasRealtime |-> FALSE, RealtimeTempC |-> 0]

\* weight left/right (main.go 271-284)
WeightPart(data, model) ==
    IF WeightGuard(data)
    THEN LET wl == parseWeight(model, LittleEndianUint16(data, 10))
             wr == parseWeight(model, LittleEndianUint16(data, 12))
         IN  IF wl.ok \/ wr.ok
             THEN [HasWeight |-> TRUE, WeightLeft |-> wl.kg, WeightRight |-> wr.kg,
                   WeightTotal |-> wl.kg + wr.kg]
             ELSE [HasWeight |-> FALSE, WeightLeft |-> 0, WeightRight |-> 0,
                   WeightTotal |-> 0]
    ELSE [HasWeight |-> FALSE, WeightLeft |-> 0, WeightRight |-> 0, WeightTotal |-> 0]

\* humidity (main.go 286-295)
HumidityPart(data, model) ==
    IF HumidityGuard(data, model) /\ ByteAt(data, 14) >= 0 /\ ByteAt(data, 14) <= 100
    THEN [HasHumidity |-> TRUE, HumidityPct |-> ByteAt(data, 14)]
    ELSE [HasHumidity |-> FALSE, HumidityPct |-> 0]

\* the second pair decoded without the update of the total
FourCellPartKeepTotal(data, model, w) ==
    IF FourCellGuard(data, model)
    THEN LET wl2 == parseWeight(model, LittleEndianUint16(data, 15))
             wr2 == parseWeight(model, LittleEndianUint16(data, 17))
         IN  IF wl2.ok \/ wr2.ok
             THEN [Has4Cell |-> TRUE, WeightLeft2 |-> wl2.kg, WeightRight2 |-> wr2.kg,
                   WeightTotal |-> w.WeightTotal]
             ELSE [Has4Cell |-> FALSE, WeightLeft2 |-> 0, WeightRight2 |-> 0,
                   WeightTotal |-> w.WeightTotal]
    ELSE [Has4Cell |-> FALSE, WeightLeft2 |-> 0, WeightRight2 |-> 0,
          WeightTotal |-> w.WeightTotal]

\* second weight pair of the four-cell models (main.go 299-312)
FourCellPart(data, model, w) ==
    IF FourCellGuard(data, model)
    THEN LET wl2 == parseWeight(model, LittleEndianUint16(data, 15))
             wr2 == parseWeight(model, LittleEndianUint16(data, 17))
         IN  IF wl2.ok \/ wr2.ok
             THEN [Has4Cell |-> TRUE, WeightLeft2 |-> wl2.kg, WeightRight2 |-> wr2.kg,
                   WeightTotal |-> w.WeightLeft + w.WeightRight + wl2.kg + wr2.kg]
             ELSE [Has4Cell |-> FALSE, WeightLeft2 |-> 0, WeightRight2 |-> 0,
                   WeightTotal |-> w.WeightTotal]
    ELSE [Has4Cell |-> FALSE, WeightLeft2 |-> 0, WeightRight2 |-> 0,
          WeightTotal |-> w.WeightTotal]

\* swarm state (main.go 314-317)
SwarmPart(data, model) ==
    IF SwarmGuard(data, model)
    THEN [HasSwarm |-> TRUE, SwarmState |-> ByteAt(data, 19)]
    ELSE [HasSwarm |-> FALSE, SwarmState |-> 0]

\* realtime total weight (main.go 320-326)
RealtimeWeightPart(data, model) ==
    IF RealtimeWeightGuard(data, model)
       /\ LittleEndianUint16(data, 19) \notin weightSentinels
    THEN LittleEndianUint16(data, 19) - 32767
    ELSE 0

BuildReading(mac, rssi, data) ==
    LET model == ByteAt(data, 0)
        rt == RealtimePart(data, model)
        w == WeightPart(data, model)
        h == HumidityPart(data, model)
        w2 == FourCellPart(data, model, w)
        sw == SwarmPart(data, model)
    IN  [MAC |-> ToUpper(mac),
         RSSI |-> rssi,
         ModelByte |-> model,
         Model |-> modelName(model),
         FirmwareMinor |-> ByteAt(data, 1),
         FirmwareMajor |-> ByteAt(data, 2),
         BatteryPercent |-> Min(ByteAt(data, 4), 100),
         SampleCounter |-> LittleEndianUint16(data, 5),
         TemperatureC |-> RoundedTemperature(model, LittleEndianUint16(data, 7)),
         HasRealtime |-> rt.HasRealtime,
         RealtimeTempC |-> rt.RealtimeTempC,
         HasWeight |-> w.HasWeight,
         WeightLeft |-> w.WeightLeft,
         WeightRight |-> w.WeightRight,
         WeightTotal |-> w2.WeightTotal,
         HasHumidity |-> h.HasHumidity,
         HumidityPct |-> h.HumidityPct,
         Has4Cell |-> w2.Has4Cell,
         WeightLeft2 |-> w2.WeightLeft2,
         WeightRight2 |-> w2.WeightRight2,
         HasSwarm |-> sw.HasSwarm,
         SwarmState |-> sw.SwarmState,
         RealtimeWeight |-> RealtimeWeightPart(data, model)]

\* a tolerance of one byte in the length test
TooShortOffByOne(data) == Len(data) < MinPayloadLen - 1

\* the length test of line 234
TooShort(data) == Len(data) < MinPayloadLen

parseAdvertisement(mac, rssi, data) ==
    IF TooShort(data)
    THEN [kind |-> "error", got |-> Len(data), need |-> 15]
    ELSE IF \E i \in FixedReads : i >= Len(data)
    THEN [kind |-> "panic"]
    ELSE IF \E i \in GuardedReads(data, ByteAt(data, 0)) : i >= Len(data)
    THEN [kind |-> "panic"]
    ELSE [kind |-> "reading", reading |-> BuildReading(mac, rssi, data)]

(***************************************************************************)
(* buildPayload of the test suite: the 21-byte layout, little-endian.      *)
(***************************************************************************)
Lo(v) == v % 256

Hi(v) == (v \div 256) % 256

buildPayload(model, fwMinor, fwMajor, rtTempLSB, battery, elapsed, temp, rtTempMSB, weightL, weightR, humidity, wl2, wr2, swarmOrRtWtL, rtWtH) ==
    <<model, fwMinor, fwMajor, rtTempLSB, battery, Lo(elapsed), Hi(elapsed),
      Lo(temp), Hi(temp), rtTempMSB, Lo(weightL), Hi(weightL), Lo(weightR),
      Hi(weightR), humidity, Lo(wl2), Hi(wl2), Lo(wr2), Hi(wr2), swarmOrRtWtL, rtWtH>>

(***************************************************************************)
(* Inputs of the scan flow.                                                *)
(***************************************************************************)
\* "a1", "A1", "B2": two devices, one of them reported in both letter cases
Addresses == {<<97, 49>>, <<65, 49>>, <<66, 50>>}

\* sample counters: an increment (0 to 1), a lower value, the wrap 65535 to 0
Counters == {0, 1, 65535}

\* the sample counters of the advertisements the adapter delivers
ScanCounters == {0, 1}

\* a TH advertisement: 22.00 C, battery 68, humidity 64, no weight
ScanPayload(counter) ==
    buildPayload(modelTH, 21, 2, 0, 68, counter, 24618, 0, 32767, 32767, 64, 0, 0, 0, 0)

\* a payload cut below the 15-byte floor
ShortPayload == SubSeq(ScanPayload(0), 1, 10)

\* elements of ScanResult.ManufacturerData(): another vendor's (Apple, 76),
\* BroodMinder's with a short payload, BroodMinder's with a full payload
OtherEntry == [CompanyID |-> 76, Data |-> <<2, 21>>]

ShortEntry == [CompanyID |-> broodMinderManufacturerID, Data |-> ShortPayload]

FullEntry(c) == [CompanyID |-> broodMinderManufacturerID, Data |-> ScanPayload(c)]

ScanResult(a, md) == [Address |-> a, RSSI |-> -70, ManufacturerData |-> md]

\* the scan results the adapter may deliver: one device ("A1") with two
\* counters, the same device reported in lower case, a second device, a
\* result with another vendor's data and a short BroodMinder payload, and a
\* short payload followed by a full one in the same result
ScanResults ==
    {ScanResult(<<65, 49>>, <<FullEntry(c)>>) : c \in ScanCounters}
    \cup {ScanResult(<<97, 49>>, <<FullEntry(0)>>),
          ScanResult(<<66, 50>>, <<FullEntry(0)>>),
          ScanResult(<<66, 50>>, <<OtherEntry, ShortEntry>>),
          ScanResult(<<65, 49>>, <<ShortEntry, FullEntry(0)>>)}

NoResult == [Address |-> <<>>, RSSI |-> 0, ManufacturerData |-> <<>>]

\* the goroutines that run scan callbacks (or tracker calls) at the same time
Callbacks == {1, 2}

(***************************************************************************)
(* State.                                                                  *)
(***************************************************************************)
VARIABLES
    seen,        \* tracker.seen: MAC -> last sample counter (a Go map)
    firstSee,    \* tracker.firstSee: MAC -> already discovered (a Go map)
    mu,          \* tracker.mu: 0 when free, else the callback holding it
    deviceCount, \* main's deviceCount
    ctxDone,     \* the context is cancelled
    scanStopped, \* adapter.StopScan() was called
    mainPc,      \* "scan" in adapter.Scan, "done" after Scan complete, "exit1";
                 \* "test" when the functions are driven by a test instead of main
    timerPc,     \* duration goroutine: "off", "armed", "fired", "exited"
    sigPc,       \* signal goroutine: "waiting", "done"
    showAll,     \* flag -all
    jsonOut,     \* flag -json
    durationSet, \* flag -duration > 0
    delivered,   \* scan results delivered so far
    pc,          \* position of each scan callback
    result,      \* the ScanResult each callback was invoked with
    idx,         \* index of the callback's for-range over ManufacturerData
    local,       \* locals of the tracker call and of deviceCount++ in flight
    arg,         \* the arguments of the tracker call in flight
    newRes,      \* what the goroutine's last isNew call returned
    fdRes,       \* what the goroutine's last isFirstDiscovery call returned
    calls,       \* tracker calls made by the test goroutines so far
    fdHist,      \* history: per MAC, the isFirstDiscovery returns in order
    out,         \* what was written, in order (stdout and stderr together)
    overlap,     \* history: isNew calls that returned true during each call in flight
    newHist,     \* history: per MAC, the counter of the latest isNew call to
                 \* return and of the latest one to return true (-1: none)
    pIn,         \* parser run: the input
    pOut,        \* parser run: the result
    SEEN_COUNTERS, \* bm-scan.sh: MAC -> last sample counter (associative array)
    KNOWN_DEVICES, \* bm-scan.sh: MAC -> 1 (associative array)
    DEVICE_COUNT,  \* bm-scan.sh: the devices discovered so far
    shOut,         \* bm-scan.sh: what was written, in order
    shPkts         \* bm-scan.sh: the payloads its main loop has yet to hand
                   \* to parse_reading

scanVars == <<seen, firstSee, mu, deviceCount, ctxDone, scanStopped, mainPc, timerPc,
              sigPc, showAll, jsonOut, durationSet, delivered, pc, result, idx, local,
              arg, newRes, fdRes, calls, fdHist, out, overlap, newHist>>

parseVars == <<pIn, pOut>>

flagVars == <<showAll, jsonOut, durationSet>>

histVars == <<calls, fdHist, overlap, newHist>>

shellVars == <<SEEN_COUNTERS, KNOWN_DEVICES, DEVICE_COUNT, shOut, shPkts>>

vars == <<scanVars, parseVars, shellVars>>

(***************************************************************************)
(* Go maps: a function on the keys present.                                *)
(***************************************************************************)
EmptyMap == [k \in {} |-> 0]

MapHas(m, k) == k \in DOMAIN m

MapPut(m, k, v) == [x \in (DOMAIN m) \cup {k} |-> IF x = k THEN v ELSE m[x]]

\* m[k] of a map[string]bool: false when the key is absent
MapBool(m, k) == IF MapHas(m, k) THEN m[k] ELSE FALSE

NoLocal == [ok |-> FALSE, last |-> 0]

NoArg == [mac |-> <<>>, counter |-> 0]

\* the identities the tracker can be asked about
Macs == {ToUpper(a) : a \in Addresses}

NoOverlap == [all |-> {}, live |-> {}]

NoInput == [mac |-> <<>>, rssi |-> 0, data |-> <<>>]

NoOutput == [kind |-> "none"]

\* bm-scan.sh: the globals after their declaration (part_000 652-654)
ShellInit ==
    /\ SEEN_COUNTERS = [k \in {} |-> 0]
    /\ KNOWN_DEVICES = [k \in {} |-> 0]
    /\ DEVICE_COUNT = 0
    /\ shOut = <<>>
    /\ shPkts = <<>>

ScanInit ==
    /\ seen = EmptyMap
    /\ firstSee = EmptyMap
    /\ mu = 0
    /\ deviceCount = 0
    /\ ctxDone = FALSE
    /\ scanStopped = FALSE
    /\ sigPc = "waiting"
    /\ delivered = 0
    /\ pc = [t \in Callbacks |-> "idle"]
    /\ result = [t \in Callbacks |-> NoResult]
    /\ idx = [t \in Callbacks |-> 0]
    /\ local = [t \in Callbacks |-> NoLocal]
    /\ arg = [t \in Callbacks |-> NoArg]
    /\ newRes = [t \in Callbacks |-> FALSE]
    /\ fdRes = [t \in Callbacks |-> FALSE]
    /\ calls = 0
    /\ fdHist = [m \in Macs |-> <<>>]
    /\ newHist = [m \in Macs |-> [last |-> -1, lastTrue |-> -1]]
    /\ out = <<>>
    /\ overlap = [t \in Callbacks |-> NoOverlap]

Init ==
    /\ ScanInit
    /\ ShellInit
    /\ mainPc = "scan"
    /\ showAll \in BOOLEAN
    /\ jsonOut \in BOOLEAN
    /\ durationSet \in BOOLEAN
    /\ timerPc = IF durationSet THEN "armed" ELSE "off"
    /\ pIn = NoInput
    /\ pOut = NoOutput

(***************************************************************************)
(* tracker (main.go 331-366).  A call takes two steps: Lock with the read  *)
(* of the map, then the test with the store, Unlock and the return.  The   *)
(* mutex is what keeps another call from stepping between the two.         *)
(***************************************************************************)
\* a mutex that excludes nobody
CanLockAlways(t) == TRUE

\* sync.Mutex.Lock returns only when no other goroutine holds the mutex
CanLock(t) == mu = 0

\* the test without the ok of the map read: an absent identity is a duplicate
\* of counter 0 (the zero value)
isNewResultNoOk(ok, last, counter) == last # counter

\* no duplicate suppression
isNewResultAlways(ok, last, counter) == TRUE

\* the counter taken as ordered: only a greater one is new
isNewResultOrdered(ok, last, counter) == ~(ok /\ counter <= last)

\* isNew: the test of line 350 decides the return value
isNewResult(ok, last, counter) == ~(ok /\ last = counter)

\* a store that keeps no entry but the one it writes
isNewStoreOnly(m, mac, counter, ret) == IF ret THEN [x \in {mac} |-> counter] ELSE m

\* a store that keeps the first counter of an identity
isNewStoreKeepFirst(m, mac, counter, ret) ==
    IF ret /\ mac \notin DOMAIN m THEN MapPut(m, mac, counter) ELSE m

\* isNew: the store of line 353, reached only when the test fails
isNewStore(m, mac, counter, ret) == IF ret THEN MapPut(m, mac, counter) ELSE m

\* isFirstDiscovery: the test of line 361 decides the return value
isFirstDiscoveryResult(was) == ~was

\* a store that keeps no entry but the one it writes
isFirstDiscoveryStoreOnly(m, mac, ret) == IF ret THEN [x \in {mac} |-> TRUE] ELSE m

\* isFirstDiscovery: the store of line 364, reached only when the test fails
isFirstDiscoveryStore(m, mac, ret) == IF ret THEN MapPut(m, mac, TRUE) ELSE m

Set(f, t, v) == [f EXCEPT ![t] = v]

IsNewPcs == {"isNewLock", "isNewCmp"}

\* the process is alive: main is in adapter.Scan, or a test is running
Running == mainPc \in {"scan", "test"}

\* what a call that returned true adds to the history of a call in flight
Overlapped(h, a) ==
    [all |-> h.all \cup {a}, live |-> {x \in h.live : x.mac # a.mac} \cup {a}]

\* isNew: t.mu.Lock(), then last, ok := t.seen[mac]
IsNewLock(t) ==
    /\ Running /\ pc[t] = "isNewLock"
    /\ CanLock(t)
    /\ mu' = t
    /\ local' = Set(local, t,
                    [ok |-> MapHas(seen, arg[t].mac),
                     last |-> IF MapHas(seen, arg[t].mac) THEN seen[arg[t].mac] ELSE 0])
    /\ pc' = Set(pc, t, "isNewCmp")
    /\ UNCHANGED <<seen, firstSee, deviceCount, ctxDone, scanStopped, mainPc, timerPc,
                   sigPc, flagVars, delivered, result, idx, arg, newRes, fdRes, out,
                   histVars, parseVars, shellVars>>

\* isNew: the comparison, the store when the counter differs, then the
\* deferred t.mu.Unlock() and the return
IsNewCmp(t) ==
    /\ Running /\ pc[t] = "isNewCmp"
    /\ LET ret == isNewResult(local[t].ok, local[t].last, arg[t].counter)
       IN  /\ newRes' = Set(newRes, t, ret)
           /\ seen' = isNewStore(seen, arg[t].mac, arg[t].counter, ret)
           /\ overlap' = [u \in Callbacks |->
                            IF u # t /\ ret /\ pc[u] \in IsNewPcs
                            THEN Overlapped(overlap[u], arg[t])
                            ELSE overlap[u]]
    /\ newHist' = [newHist EXCEPT ![arg[t].mac] =
                      [last |-> arg[t].counter,
                       lastTrue |-> IF isNewResult(local[t].ok, local[t].last,
                                                   arg[t].counter)
                                    THEN arg[t].counter ELSE @.lastTrue]]
    /\ mu' = 0
    /\ pc' = Set(pc, t, "isNewRet")
    /\ UNCHANGED <<firstSee, deviceCount, ctxDone, scanStopped, mainPc, timerPc, sigPc,
                   flagVars, delivered, result, idx, local, arg, fdRes, out, calls,
                   fdHist, parseVars, shellVars>>

\* isFirstDiscovery: t.mu.Lock(), then the read t.firstSee[mac]
FdLock(t) ==
    /\ Running /\ pc[t] = "fdLock"
    /\ CanLock(t)
    /\ mu' = t
    /\ local' = Set(local, t, [ok |-> MapBool(firstSee, arg[t].mac), last |-> 0])
    /\ pc' = Set(pc, t, "fdCmp")
    /\ UNCHANGED <<seen, firstSee, deviceCount, ctxDone, scanStopped, mainPc, timerPc,
                   sigPc, flagVars, delivered, result, idx, arg, newRes, fdRes, out,
                   histVars, parseVars, shellVars>>

\* isFirstDiscovery: the test, the store when the MAC is new, then the
\* deferred t.mu.Unlock() and the return
FdCmp(t) ==
    /\ Running /\ pc[t] = "fdCmp"
    /\ LET ret == isFirstDiscoveryResult(local[t].ok)
       IN  /\ fdRes' = Set(fdRes, t, ret)
           /\ firstSee' = isFirstDiscoveryStore(firstSee, arg[t].mac, ret)
           /\ fdHist' = [fdHist EXCEPT ![arg[t].mac] = Append(@, ret)]
    /\ mu' = 0
    /\ pc' = Set(pc, t, "fdRet")
    /\ UNCHANGED <<seen, deviceCount, ctxDone, scanStopped, mainPc, timerPc, sigPc,
                   flagVars, delivered, result, idx, local, arg, newRes, out, calls,
                   overlap, newHist,
                   parseVars, shellVars>>

(***************************************************************************)
(* The scan callback (main.go 470-510).                                    *)
(***************************************************************************)
Entry(t) == result[t].ManufacturerData[idx[t]]

HasEntry(t) == idx[t] >= 1 /\ idx[t] <= Len(result[t].ManufacturerData)

Parsed(t) == parseAdvertisement(result[t].Address, result[t].RSSI, Entry(t).Data)

\* the callback's reading, once parseAdvertisement has returned one
Rd(t) == Parsed(t).reading

\* isNew called whatever -all says
DedupAlways == TRUE

\* the filter of line 496: isNew is called unless -all is set
DedupEnabled == ~showAll

Event(kind, mac, n) == [kind |-> kind, mac |-> mac, n |-> n]

\* adapter.Scan invokes the callback with a scan result
Deliver(t, r) ==
    /\ mainPc = "scan" /\ ~scanStopped
    /\ pc[t] = "idle"
    /\ \A u \in Callbacks : u < t => pc[u] # "idle"
    /\ delivered < MaxDeliveries
    /\ delivered' = delivered + 1
    /\ pc' = Set(pc, t, "ctxCheck")
    /\ result' = Set(result, t, r)
    /\ UNCHANGED <<seen, firstSee, mu, deviceCount, ctxDone, scanStopped, mainPc,
                   timerPc, sigPc, flagVars, idx, local, arg, newRes, fdRes, out,
                   histVars, parseVars, shellVars>>

\* select on ctx.Done(): cancelled, so StopScan and return (lines 472-475)
CallbackStops(t) ==
    /\ Running /\ pc[t] = "ctxCheck"
    /\ ctxDone
    /\ scanStopped' = TRUE
    /\ pc' = Set(pc, t, "idle")
    /\ result' = Set(result, t, NoResult)
    /\ UNCHANGED <<seen, firstSee, mu, deviceCount, ctxDone, mainPc, timerPc, sigPc,
                   flagVars, delivered, idx, local, arg, newRes, fdRes, out, histVars,
                   parseVars, shellVars>>

\* the default branch taken without looking at ctx.Done()
CallbackProceedsAnyway(t) ==
    /\ Running /\ pc[t] = "ctxCheck"
    /\ pc' = Set(pc, t, "loop")
    /\ idx' = Set(idx, t, 1)
    /\ UNCHANGED <<seen, firstSee, mu, deviceCount, ctxDone, scanStopped, mainPc,
                   timerPc, sigPc, flagVars, delivered, result, local, arg, newRes,
                   fdRes, out, histVars, parseVars, shellVars>>

\* select on ctx.Done(): the default branch (lines 476-480)
CallbackProceeds(t) ==
    /\ Running /\ pc[t] = "ctxCheck"
    /\ ~ctxDone
    /\ pc' = Set(pc, t, "loop")
    /\ idx' = Set(idx, t, 1)
    /\ UNCHANGED <<seen, firstSee, mu, deviceCount, ctxDone, scanStopped, mainPc,
                   timerPc, sigPc, flagVars, delivered, result, local, arg, newRes,
                   fdRes, out, histVars, parseVars, shellVars>>

\* the for-range is exhausted: the callback returns
CallbackReturns(t) ==
    /\ Running /\ pc[t] = "loop"
    /\ ~HasEntry(t)
    /\ pc' = Set(pc, t, "idle")
    /\ result' = Set(result, t, NoResult)
    /\ idx' = Set(idx, t, 0)
    /\ UNCHANGED <<seen, firstSee, mu, deviceCount, ctxDone, scanStopped, mainPc,
                   timerPc, sigPc, flagVars, delivered, local, arg, newRes, fdRes, out,
                   histVars, parseVars, shellVars>>

\* an entry of another company: continue (lines 482-484)
SkipEntry(t) ==
    /\ Running /\ pc[t] = "loop"
    /\ HasEntry(t)
    /\ Entry(t).CompanyID # broodMinderManufacturerID
    /\ idx' = Set(idx, t, idx[t] + 1)
    /\ UNCHANGED <<seen, firstSee, mu, deviceCount, ctxDone, scanStopped, mainPc,
                   timerPc, sigPc, flagVars, delivered, pc, result, local, arg, newRes,
                   fdRes, out, histVars, parseVars, shellVars>>

\* return in place of continue: the rest of the scan result is dropped
ParseFailsReturns(t) ==
    /\ Running /\ pc[t] = "loop"
    /\ HasEntry(t)
    /\ Entry(t).CompanyID = broodMinderManufacturerID
    /\ Parsed(t).kind = "error"
    /\ out' = Append(out, Event("warning", result[t].Address, Parsed(t).got))
    /\ pc' = Set(pc, t, "idle")
    /\ result' = Set(result, t, NoResult)
    /\ idx' = Set(idx, t, 0)
    /\ UNCHANGED <<seen, firstSee, mu, deviceCount, ctxDone, scanStopped, mainPc,
                   timerPc, sigPc, flagVars, delivered, local, arg, newRes, fdRes,
                   histVars, parseVars, shellVars>>

\* parseAdvertisement returns an error: warn and continue (lines 486-494)
ParseFails(t) ==
    /\ Running /\ pc[t] = "loop"
    /\ HasEntry(t)
    /\ Entry(t).CompanyID = broodMinderManufacturerID
    /\ Parsed(t).kind = "error"
    /\ out' = Append(out, Event("warning", result[t].Address, Parsed(t).got))
    /\ idx' = Set(idx, t, idx[t] + 1)
    /\ UNCHANGED <<seen, firstSee, mu, deviceCount, ctxDone, scanStopped, mainPc,
                   timerPc, sigPc, flagVars, delivered, pc, result, local, arg, newRes,
                   fdRes, histVars, parseVars, shellVars>>

\* parseAdvertisement returns a Reading; line 496 calls isNew unless -all,
\* and then line 500 calls isFirstDiscovery
ParseOk(t) ==
    /\ Running /\ pc[t] = "loop"
    /\ HasEntry(t)
    /\ Entry(t).CompanyID = broodMinderManufacturerID
    /\ Parsed(t).kind = "reading"
    /\ arg' = Set(arg, t, [mac |-> Rd(t).MAC, counter |-> Rd(t).SampleCounter])
    /\ pc' = Set(pc, t, IF DedupEnabled THEN "isNewLock" ELSE "fdLock")
    /\ overlap' = Set(overlap, t, NoOverlap)
    /\ UNCHANGED <<seen, firstSee, mu, deviceCount, ctxDone, scanStopped, mainPc,
                   timerPc, sigPc, flagVars, delivered, result, idx, local, newRes,
                   fdRes, out, calls, fdHist, newHist,
                   parseVars, shellVars>>

\* line 496: isNew returned false, continue with the next entry
Suppressed(t) ==
    /\ Running /\ pc[t] = "isNewRet" /\ HasEntry(t)
    /\ ~newRes[t]
    /\ pc' = Set(pc, t, "loop")
    /\ idx' = Set(idx, t, idx[t] + 1)
    /\ arg' = Set(arg, t, NoArg)
    /\ overlap' = Set(overlap, t, NoOverlap)
    /\ local' = Set(local, t, NoLocal)
    /\ UNCHANGED <<seen, firstSee, mu, deviceCount, ctxDone, scanStopped, mainPc,
                   timerPc, sigPc, flagVars, delivered, result, newRes, fdRes,
                   out, calls, fdHist, newHist,
                   parseVars, shellVars>>

\* line 496: isNew returned true, go on to line 500
Accepted(t) ==
    /\ Running /\ pc[t] = "isNewRet" /\ HasEntry(t)
    /\ newRes[t]
    /\ pc' = Set(pc, t, "fdLock")
    /\ overlap' = Set(overlap, t, NoOverlap)
    /\ local' = Set(local, t, NoLocal)
    /\ UNCHANGED <<seen, firstSee, mu, deviceCount, ctxDone, scanStopped, mainPc,
                   timerPc, sigPc, flagVars, delivered, result, idx, arg, newRes,
                   fdRes, out, calls, fdHist, newHist,
                   parseVars, shellVars>>

\* line 500: isFirstDiscovery returned false, go on to line 508
KnownDevice(t) ==
    /\ Running /\ pc[t] = "fdRet" /\ HasEntry(t)
    /\ ~fdRes[t]
    /\ pc' = Set(pc, t, "print")
    /\ local' = Set(local, t, NoLocal)
    /\ UNCHANGED <<seen, firstSee, mu, deviceCount, ctxDone, scanStopped, mainPc,
                   timerPc, sigPc, flagVars, delivered, result, idx, arg, newRes,
                   fdRes, out, histVars, parseVars, shellVars>>

\* deviceCount++ (line 501), the load: the variable is not guarded by any lock
DcLoad(t) ==
    /\ Running /\ pc[t] = "fdRet" /\ HasEntry(t)
    /\ fdRes[t]
    /\ local' = Set(local, t, [ok |-> FALSE, last |-> deviceCount])
    /\ pc' = Set(pc, t, "dcStore")
    /\ UNCHANGED <<seen, firstSee, mu, deviceCount, ctxDone, scanStopped, mainPc,
                   timerPc, sigPc, flagVars, delivered, result, idx, arg, newRes, fdRes,
                   out, histVars, parseVars, shellVars>>

\* deviceCount++ (line 501), the store
DcStore(t) ==
    /\ Running /\ pc[t] = "dcStore"
    /\ deviceCount' = local[t].last + 1
    /\ local' = Set(local, t, NoLocal)
    /\ pc' = Set(pc, t, IF jsonOut THEN "print" ELSE "announce")
    /\ UNCHANGED <<seen, firstSee, mu, ctxDone, scanStopped, mainPc, timerPc, sigPc,
                   flagVars, delivered, result, idx, arg, newRes, fdRes, out, histVars,
                   parseVars, shellVars>>

\* "Discovered Broodminder device #n" (lines 502-505)
Announce(t) ==
    /\ Running /\ pc[t] = "announce"
    /\ out' = Append(out, Event("discovered", Rd(t).MAC, deviceCount))
    /\ pc' = Set(pc, t, "print")
    /\ UNCHANGED <<seen, firstSee, mu, deviceCount, ctxDone, scanStopped, mainPc,
                   timerPc, sigPc, flagVars, delivered, result, idx, local, arg, newRes,
                   fdRes, histVars, parseVars, shellVars>>

\* printReading (line 508), then the next entry
PrintsReading(t) ==
    /\ Running /\ pc[t] = "print"
    /\ out' = Append(out, Event("reading", Rd(t).MAC, Rd(t).SampleCounter))
    /\ pc' = Set(pc, t, "loop")
    /\ idx' = Set(idx, t, idx[t] + 1)
    /\ arg' = Set(arg, t, NoArg)
    /\ newRes' = Set(newRes, t, FALSE)
    /\ fdRes' = Set(fdRes, t, FALSE)
    /\ UNCHANGED <<seen, firstSee, mu, deviceCount, ctxDone, scanStopped, mainPc,
                   timerPc, sigPc, flagVars, delivered, result, local, histVars,
                   parseVars, shellVars>>

(***************************************************************************)
(* main: the signal goroutine, the duration goroutine, the end of Scan.    *)
(***************************************************************************)
\* SIGINT or SIGTERM arrives: cancel() (lines 439-443)
Signal ==
    /\ mainPc = "scan" /\ sigPc = "waiting"
    /\ sigPc' = "done"
    /\ ctxDone' = TRUE
    /\ UNCHANGED <<seen, firstSee, mu, deviceCount, scanStopped, mainPc, timerPc,
                   flagVars, delivered, pc, result, idx, local, arg, newRes, fdRes, out,
                   histVars, parseVars, shellVars>>

\* time.After(*duration) fires: cancel() (lines 449-450)
TimerFires ==
    /\ mainPc = "scan" /\ timerPc = "armed"
    /\ ~ctxDone
    /\ timerPc' = "fired"
    /\ ctxDone' = TRUE
    /\ UNCHANGED <<seen, firstSee, mu, deviceCount, scanStopped, mainPc, sigPc,
                   flagVars, delivered, pc, result, idx, local, arg, newRes, fdRes, out,
                   histVars, parseVars, shellVars>>

\* the duration goroutine leaves on ctx.Done() (line 451)
TimerExits ==
    /\ mainPc = "scan" /\ timerPc = "armed"
    /\ ctxDone
    /\ timerPc' = "exited"
    /\ UNCHANGED <<seen, firstSee, mu, deviceCount, ctxDone, scanStopped, mainPc,
                   sigPc, flagVars, delivered, pc, result, idx, local, arg, newRes,
                   fdRes, out, histVars, parseVars, shellVars>>

AllIdle == \A t \in Callbacks : pc[t] = "idle"

\* adapter.Scan returns after StopScan; "Scan complete" (lines 512-519)
ScanReturns ==
    /\ mainPc = "scan" /\ scanStopped
    /\ AllIdle
    /\ mainPc' = "done"
    /\ out' = IF jsonOut THEN out ELSE Append(out, Event("complete", <<>>, deviceCount))
    /\ UNCHANGED <<seen, firstSee, mu, deviceCount, ctxDone, scanStopped, timerPc,
                   sigPc, flagVars, delivered, pc, result, idx, local, arg, newRes,
                   fdRes, histVars, parseVars, shellVars>>

\* adapter.Scan returns an error: exit 1 unless the context is cancelled
ScanFails ==
    /\ mainPc = "scan" /\ ~scanStopped
    /\ AllIdle
    /\ mainPc' = IF ctxDone THEN "done" ELSE "exit1"
    /\ out' = IF ctxDone /\ ~jsonOut
              THEN Append(out, Event("complete", <<>>, deviceCount))
              ELSE out
    /\ UNCHANGED <<seen, firstSee, mu, deviceCount, ctxDone, scanStopped, timerPc,
                   sigPc, flagVars, delivered, pc, result, idx, local, arg, newRes,
                   fdRes, histVars, parseVars, shellVars>>

TrackerStep(t) ==
    \/ IsNewLock(t)
    \/ IsNewCmp(t)
    \/ FdLock(t)
    \/ FdCmp(t)

CallbackStep(t) ==
    \/ CallbackStops(t)
    \/ CallbackProceeds(t)
    \/ CallbackReturns(t)
    \/ SkipEntry(t)
    \/ ParseFails(t)
    \/ ParseOk(t)
    \/ Suppressed(t)
    \/ Accepted(t)
    \/ KnownDevice(t)
    \/ DcLoad(t)
    \/ DcStore(t)
    \/ Announce(t)
    \/ PrintsReading(t)

Next ==
    \/ \E t \in Callbacks, r \in ScanResults : Deliver(t, r)
    \/ \E t \in Callbacks : CallbackStep(t)
    \/ \E t \in Callbacks : TrackerStep(t)
    \/ Signal
    \/ TimerFires
    \/ TimerExits
    \/ ScanReturns
    \/ ScanFails

Spec == Init /\ [][Next]_vars

(***************************************************************************)
(* The tracker driven directly, as TestTracker does, but from concurrent   *)
(* goroutines: each makes calls of isNew and isFirstDiscovery with any     *)
(* identity and counter.                                                   *)
(***************************************************************************)
TrackerInit ==
    /\ ScanInit
    /\ ShellInit
    /\ mainPc = "test"
    /\ showAll = FALSE
    /\ jsonOut = FALSE
    /\ durationSet = FALSE
    /\ timerPc = "off"
    /\ pIn = NoInput
    /\ pOut = NoOutput

CallIsNew(t, mac, counter) ==
    /\ mainPc = "test" /\ pc[t] = "idle"
    /\ calls < MaxCalls
    /\ calls' = calls + 1
    /\ arg' = Set(arg, t, [mac |-> mac, counter |-> counter])
    /\ overlap' = Set(overlap, t, NoOverlap)
    /\ pc' = Set(pc, t, "isNewLock")
    /\ UNCHANGED <<seen, firstSee, mu, deviceCount, ctxDone, scanStopped, mainPc,
                   timerPc, sigPc, flagVars, delivered, result, idx, local, newRes,
                   fdRes, out, fdHist, newHist,
                   parseVars, shellVars>>

CallIsFirstDiscovery(t, mac) ==
    /\ mainPc = "test" /\ pc[t] = "idle"
    /\ calls < MaxCalls
    /\ calls' = calls + 1
    /\ arg' = Set(arg, t, [mac |-> mac, counter |-> 0])
    /\ pc' = Set(pc, t, "fdLock")
    /\ UNCHANGED <<seen, firstSee, mu, deviceCount, ctxDone, scanStopped, mainPc,
                   timerPc, sigPc, flagVars, delivered, result, idx, local, newRes,
                   fdRes, out, fdHist, overlap, newHist,
                   parseVars, shellVars>>

\* the test takes the return value of the call
CallReturned(t) ==
    /\ mainPc = "test" /\ pc[t] \in {"isNewRet", "fdRet"}
    /\ pc' = Set(pc, t, "idle")
    /\ arg' = Set(arg, t, NoArg)
    /\ local' = Set(local, t, NoLocal)
    /\ newRes' = Set(newRes, t, FALSE)
    /\ fdRes' = Set(fdRes, t, FALSE)
    /\ overlap' = Set(overlap, t, NoOverlap)
    /\ UNCHANGED <<seen, firstSee, mu, deviceCount, ctxDone, scanStopped, mainPc,
                   timerPc, sigPc, flagVars, delivered, result, idx, out, calls, fdHist,
                   newHist,
                   parseVars, shellVars>>

TrackerNext ==
    \/ \E t \in Callbacks, mac \in Macs, counter \in Counters : CallIsNew(t, mac, counter)
    \/ \E t \in Callbacks, mac \in Macs : CallIsFirstDiscovery(t, mac)
    \/ \E t \in Callbacks : TrackerStep(t)
    \/ \E t \in Callbacks : CallReturned(t)

TrackerSpec == TrackerInit /\ [][TrackerNext]_vars

(***************************************************************************)
(* The parser applied to one payload.                                      *)
(***************************************************************************)
\* the bytes that fill a payload behind its model byte: zeroes, a plausible
\* value (raw 0x6464, humidity 100) and the all-ones sentinels
FillBytes == {0, 100, 255}

Payload(model, len, fill) == [i \in 1..len |-> IF i = 1 THEN model ELSE fill]

\* payloads laid out by buildPayload (the model byte is set by the caller):
\* four valid weights of 10.00 kg as in TestParseAdvertisement_W3FourCell;
\* a valid left weight with a sentinel right one, a sentinel second left
\* weight with a valid negative right one, battery and humidity 101;
\* a sentinel left weight with a valid right one and a sentinel second pair;
\* all-ones realtime and primary temperature, a sentinel first pair, battery
\* 255; and a payload of small values with realtime temperature raw 1
Templates ==
    {buildPayload(0, 5, 4, 0, 100, 500, 7000, 0, 33767, 33767, 0, 33767, 33767, 0, 0),
     buildPayload(0, 21, 2, 52, 101, 65535, 7200, 28, 33767, 65535, 101, 32773, 32000, 1, 128),
     buildPayload(0, 10, 3, 0, 68, 89, 24618, 28, 32767, 32766, 64, 65535, 32773, 255, 127),
     buildPayload(0, 0, 0, 255, 255, 0, 65535, 255, 32773, 65535, 100, 33767, 32767, 5, 128),
     buildPayload(0, 99, 9, 1, 0, 1, 0, 0, 0, 65534, 1, 0, 0, 0, 0)}

\* a template cut or zero-padded to len bytes, with the model byte set
TemplatePayload(model, len, tmpl) ==
    [i \in 1..len |-> IF i = 1 THEN model ELSE IF i <= Len(tmpl) THEN tmpl[i] ELSE 0]

\* the twelve known model codes
KnownModels ==
    {modelT, modelTH, modelW, modelT2, modelW3, modelSubHub, modelHub4G, modelTH2,
     modelWPlus, modelDIY, modelHubWF, modelBeeDar}

\* the models whose payloads are filled with every byte value
SweepModels == KnownModels \cup {0, 44, 255}

\* the arguments of one parseAdvertisement call
ParseInput(data) == [mac |-> <<97, 49>>, rssi |-> -70, data |-> data]

\* the payloads parsed: every model byte at every length with a uniform fill
\* and with each template, and the swept models with every fill byte
ParseInputChosen ==
    \/ \E m \in Bytes, n \in 0..MaxPayloadLen, f \in FillBytes :
          pIn = ParseInput(Payload(m, n, f))
    \/ \E m \in Bytes, n \in 0..MaxPayloadLen, tm \in Templates :
          pIn = ParseInput(TemplatePayload(m, n, tm))
    \/ \E m \in SweepModels, n \in MinPayloadLen..MaxPayloadLen, f \in Bytes :
          pIn = ParseInput(Payload(m, n, f))

ParseInit ==
    /\ ScanInit
    /\ ShellInit
    /\ mainPc = "test"
    /\ showAll = FALSE
    /\ jsonOut = FALSE
    /\ durationSet = FALSE
    /\ timerPc = "off"
    /\ ParseInputChosen
    /\ pOut = NoOutput

ParseRun ==
    /\ pOut = NoOutput
    /\ pOut' = parseAdvertisement(pIn.mac, pIn.rssi, pIn.data)
    /\ UNCHANGED <<scanVars, pIn, shellVars>>

ParseNext == ParseRun

ParseSpec == ParseInit /\ [][ParseNext]_vars

(***************************************************************************)
(* The decoders applied to one model byte and one raw value, as the table  *)
(* tests TestParseTemperature, TestParseWeight and TestModelName do.       *)
(***************************************************************************)
\* raw values: the ends of the range, the sentinels and their neighbours, the
\* offsets 5000 and 32767, the values of the tests, and a spread over uint16
RawValues ==
    {0, 1, 500, 4999, 5000, 5001, 7000, 7200, 24618, 32000, 32766, 32767, 32768, 32772,
     32773, 32774, 33767, 65534, 65535}
    \cup {257 * k : k \in Bytes}

\* firmware bytes of the payloads that carry a raw temperature
FirmwareBytes == {0, 5, 255}

\* a payload with the given model, firmware bytes, raw temperature and length
TemperaturePayload(model, fw, raw, len) ==
    TemplatePayload(model, len,
                    buildPayload(model, fw, fw, 0, 50, 1, raw, 0, 0, 0, 0, 0, 0, 0, 0))

\* TemperatureC of the Readings parsed from such payloads, over all firmware
\* bytes and lengths
ParsedTemperatures(model, raw) ==
    {parseAdvertisement(<<97, 49>>, -70,
                        TemperaturePayload(model, fw, raw, len)).reading.TemperatureC :
        fw \in FirmwareBytes, len \in MinPayloadLen..MaxPayloadLen}

DecodeInit ==
    /\ ScanInit
    /\ ShellInit
    /\ mainPc = "test"
    /\ showAll = FALSE
    /\ jsonOut = FALSE
    /\ durationSet = FALSE
    /\ timerPc = "off"
    /\ \E m \in Bytes, raw \in RawValues : pIn = [model |-> m, raw |-> raw]
    /\ pOut = NoOutput

RunParseWeight ==
    /\ pOut = NoOutput
    /\ pOut' = [kind |-> "weight",
                kg |-> parseWeight(pIn.model, pIn.raw).kg,
                ok |-> parseWeight(pIn.model, pIn.raw).ok]
    /\ UNCHANGED <<scanVars, pIn, shellVars>>

RunParseTemperature ==
    /\ pOut = NoOutput
    /\ pOut' = [kind |-> "temperature",
                value |-> parseTemperature(pIn.model, pIn.raw),
                readings |-> ParsedTemperatures(pIn.model, pIn.raw)]
    /\ UNCHANGED <<scanVars, pIn, shellVars>>

\* a template with bytes 5 and 6 set as buildPayload writes a sample counter
CounterPayload(model, raw, tmpl, len) ==
    [i \in 1..len |->
        IF i = 6 THEN Lo(raw)
        ELSE IF i = 7 THEN Hi(raw)
        ELSE TemplatePayload(model, len, tmpl)[i]]

\* SampleCounter of the Readings parsed from such payloads, over all
\* templates, at the shortest, the full and the longest length
ParsedCounters(model, raw) ==
    {parseAdvertisement(<<97, 49>>, -70,
                        CounterPayload(model, raw, tm, len)).reading.SampleCounter :
        tm \in Templates, len \in {MinPayloadLen, 21, MaxPayloadLen}}

RunSampleCounter ==
    /\ pOut = NoOutput
    /\ pOut' = [kind |-> "counter", counters |-> ParsedCounters(pIn.model, pIn.raw)]
    /\ UNCHANGED <<scanVars, pIn, shellVars>>

RunModelName ==
    /\ pOut = NoOutput
    /\ pOut' = [kind |-> "name",
                name |-> modelName(pIn.model),
                reading |-> parseAdvertisement(<<97, 49>>, -70,
                               TemperaturePayload(pIn.model, 0, pIn.raw, 15)).reading]
    /\ UNCHANGED <<scanVars, pIn, shellVars>>

DecodeNext ==
    \/ RunParseWeight
    \/ RunParseTemperature
    \/ RunModelName
    \/ RunSampleCounter

DecodeSpec == DecodeInit /\ [][DecodeNext]_vars

(***************************************************************************)
(* bm-scan.sh, the shell implementation of the scanner.  bytes is the      *)
(* payload that parse_reading receives, from the model byte on; bytes[i]   *)
(* of the script is ByteAt(bytes, i).  bc with scale=2 divides a whole     *)
(* number of hundredths by 100.0 exactly, so the weights are kept in       *)
(* hundredths of a kg as in the Go model.                                  *)
(***************************************************************************)
\* le16: printf "%d" "0x${2}${1}"
le16(b1, b2) == 256 * b2 + b1

is_weight_model(dec) == dec = 43 \/ dec = 57 \/ dec = 49 \/ dec = 58

is_4cell_model(dec) == dec = 49 \/ dec = 58

is_weight_sentinel(raw) == raw = 32767 \/ raw = 32773 \/ raw = 65535

\* the first weight pair of parse_reading (bytes 10-13)
sh_weight(bytes) ==
    LET wl_raw_uint == le16(ByteAt(bytes, 10), ByteAt(bytes, 11))
        wr_raw_uint == le16(ByteAt(bytes, 12), ByteAt(bytes, 13))
    IN  IF /\ is_weight_model(ByteAt(bytes, 0)) /\ Len(bytes) >= 14
           /\ ~is_weight_sentinel(wl_raw_uint) /\ ~is_weight_sentinel(wr_raw_uint)
        THEN [has_weight |-> TRUE, weight_l |-> wl_raw_uint - 32767,
              weight_r |-> wr_raw_uint - 32767,
              weight_total |-> (wl_raw_uint - 32767) + (wr_raw_uint - 32767)]
        ELSE [has_weight |-> FALSE, weight_l |-> 0, weight_r |-> 0, weight_total |-> 0]

\* the second weight pair of parse_reading (bytes 15-18), after the first
sh_4cell(bytes, w) ==
    IF is_4cell_model(ByteAt(bytes, 0)) /\ Len(bytes) >= 19
    THEN LET wl2_raw_uint == le16(ByteAt(bytes, 15), ByteAt(bytes, 16))
             wr2_raw_uint == le16(ByteAt(bytes, 17), ByteAt(bytes, 18))
         IN  IF ~is_weight_sentinel(wl2_raw_uint) /\ ~is_weight_sentinel(wr2_raw_uint)
             THEN [has_4cell |-> TRUE, weight_l2 |-> wl2_raw_uint - 32767,
                   weight_r2 |-> wr2_raw_uint - 32767,
                   weight_total |-> w.weight_l + w.weight_r + (wl2_raw_uint - 32767)
                                      + (wr2_raw_uint - 32767)]
             ELSE [has_4cell |-> FALSE, weight_l2 |-> 0, weight_r2 |-> 0,
                   weight_total |-> w.weight_total]
    ELSE [has_4cell |-> FALSE, weight_l2 |-> 0, weight_r2 |-> 0,
          weight_total |-> w.weight_total]

\* the weight variables of parse_reading at its output step; a payload of
\* fewer than 15 bytes makes it return 1 before anything is decoded
parse_reading_weight(bytes) ==
    IF Len(bytes) < 15 THEN [kind |-> "error"]
    ELSE LET w == sh_weight(bytes)
             c == sh_4cell(bytes, w)
         IN  [kind |-> "reading", has_weight |-> w.has_weight,
              has_4cell |-> c.has_4cell, weight_l |-> w.weight_l,
              weight_r |-> w.weight_r, weight_l2 |-> c.weight_l2,
              weight_r2 |-> c.weight_r2, weight_total |-> c.weight_total]

(***************************************************************************)
(* bm-scan.sh: deduplication and discovery in parse_reading, and the scan  *)
(* results handed to the Go callback and to the script one at a time.      *)
(* The options -a and -j of the script are the options -all and -json.     *)
(***************************************************************************)
SHOW_ALL == showAll

JSON_OUTPUT == jsonOut

\* "${SEEN_COUNTERS[$mac]:-}": the stored counter, or the empty string
\* (here -1, which no sample counter equals) when the MAC has no entry
sh_prev(mac) == IF mac \in DOMAIN SEEN_COUNTERS THEN SEEN_COUNTERS[mac] ELSE -1

\* lines 775-779: the advertisement is a duplicate, parse_reading returns 0
sh_suppressed(mac, sample) == ~SHOW_ALL /\ sh_prev(mac) = sample

\* a test that takes every device for a new one
sh_unknown_always(mac) == TRUE

\* line 784: -z "${KNOWN_DEVICES[$mac]:-}"
sh_unknown(mac) == mac \notin DOMAIN KNOWN_DEVICES

\* the main loop (lines 968-1000): the packet is searched for the first
\* 18 FF 8D 02, a manufacturer-specific field of 24 bytes with BroodMinder's
\* ID, that is a payload of 21 bytes; the MAC is put in upper case, and
\* parse_reading is called when the payload has at least 15 bytes
sh_marker(e) == e.CompanyID = 653 /\ Len(e.Data) + 3 = 24

sh_packets(r) ==
    LET md == r.ManufacturerData
        hits == {i \in 1..Len(md) : sh_marker(md[i])}
    IN  IF hits = {} THEN <<>>
        ELSE LET i == CHOOSE k \in hits : \A j \in hits : k <= j
             IN  IF Len(md[i].Data) >= 15
                 THEN <<[mac |-> ToUpper(r.Address), bytes |-> md[i].Data]>>
                 ELSE <<>>

\* parse_reading up to its output: the length check, the sample counter,
\* deduplication, discovery, and the reading
parse_reading ==
    /\ shPkts # <<>>
    /\ LET mac == Head(shPkts).mac
           bytes == Head(shPkts).bytes
           sample == le16(ByteAt(bytes, 5), ByteAt(bytes, 6))
       IN  IF Len(bytes) < 15 \/ sh_suppressed(mac, sample)
           THEN UNCHANGED <<SEEN_COUNTERS, KNOWN_DEVICES, DEVICE_COUNT, shOut>>
           ELSE /\ SEEN_COUNTERS' = IF SHOW_ALL THEN SEEN_COUNTERS
                                    ELSE MapPut(SEEN_COUNTERS, mac, sample)
                /\ KNOWN_DEVICES' = IF sh_unknown(mac) THEN MapPut(KNOWN_DEVICES, mac, 1)
                                    ELSE KNOWN_DEVICES
                /\ DEVICE_COUNT' = IF sh_unknown(mac) THEN DEVICE_COUNT + 1
                                   ELSE DEVICE_COUNT
                /\ shOut' = shOut
                            \o (IF sh_unknown(mac) /\ ~JSON_OUTPUT
                                THEN <<Event("discovered", mac, DEVICE_COUNT + 1)>>
                                ELSE <<>>)
                            \o <<Event("reading", mac, sample)>>
    /\ shPkts' = Tail(shPkts)
    /\ UNCHANGED <<scanVars, parseVars>>

\* the adapter hands a scan result to the one callback and hcidump the
\* same packet to the script, when both are done with the one before
DeliverBoth(r) ==
    /\ mainPc = "scan" /\ ~scanStopped
    /\ pc[1] = "idle" /\ shPkts = <<>>
    /\ delivered < MaxAdverts
    /\ delivered' = delivered + 1
    /\ pc' = Set(pc, 1, "ctxCheck")
    /\ result' = Set(result, 1, r)
    /\ shPkts' = sh_packets(r)
    /\ UNCHANGED <<seen, firstSee, mu, deviceCount, ctxDone, scanStopped, mainPc,
                   timerPc, sigPc, flagVars, idx, local, arg, newRes, fdRes, out,
                   histVars, parseVars, SEEN_COUNTERS, KNOWN_DEVICES, DEVICE_COUNT,
                   shOut>>

\* both programs started with the same options; the scan is not cancelled
SeqInit ==
    /\ ScanInit
    /\ ShellInit
    /\ mainPc = "scan"
    /\ showAll \in BOOLEAN
    /\ jsonOut \in BOOLEAN
    /\ durationSet = FALSE
    /\ timerPc = "off"
    /\ pIn = NoInput
    /\ pOut = NoOutput

SeqNext ==
    \/ \E r \in ScanResults : DeliverBoth(r)
    \/ CallbackProceeds(1)
    \/ CallbackReturns(1)
    \/ SkipEntry(1)
    \/ ParseFails(1)
    \/ ParseOk(1)
    \/ Suppressed(1)
    \/ Accepted(1)
    \/ KnownDevice(1)
    \/ DcLoad(1)
    \/ DcStore(1)
    \/ Announce(1)
    \/ PrintsReading(1)
    \/ TrackerStep(1)
    \/ parse_reading

SeqSpec == SeqInit /\ [][SeqNext]_vars

(***************************************************************************)
(* The scan flow under the scheduling the Go runtime gives: a goroutine    *)
(* that can step does step, the timer fires, and Scan returns once it was  *)
(* stopped.  Nothing makes the radio deliver another scan result, a signal *)
(* arrive or the adapter fail.                                             *)
(***************************************************************************)
FairSpec ==
    /\ Init
    /\ [][Next]_vars
    /\ WF_vars(TimerFires)
    /\ WF_vars(TimerExits)
    /\ WF_vars(ScanReturns)
    /\ \A t \in Callbacks : WF_vars(CallbackStep(t) \/ TrackerStep(t))

(***************************************************************************)
(* Properties.                                                             *)
(***************************************************************************)
\* the step of goroutine t that completes its isNew call
IsNewCompletes(t) == pc[t] = "isNewCmp" /\ pc'[t] = "isNewRet"

\* C1 as stated: of two isNew calls that run concurrently with the same
\* identity and the same counter, at most one returns true.
C1_NoTwoConcurrentTrue ==
    \A t \in Callbacks :
        (pc[t] = "isNewRet" /\ newRes[t]) => arg[t] \notin overlap[t].all

\* C1 amended: of two isNew calls that run concurrently with the same identity
\* and the same counter, both return true only if an isNew call for that
\* identity with another counter returned true between them.
C1_AtomicAdmit ==
    \A t \in Callbacks :
        (pc[t] = "isNewRet" /\ newRes[t]) => arg[t] \notin overlap[t].live

\* C1 witness: a call returned false because a concurrent call with the same
\* identity and counter had returned true.
C1_Witness ==
    \E t \in Callbacks :
        pc[t] = "isNewRet" /\ ~newRes[t] /\ arg[t] \in overlap[t].live

\* C2: an isNew call for an identity that has no entry in seen returns true
\* and records its counter, whatever entries other identities have.
C2_FirstAdmit ==
    [][\A t \in Callbacks :
          (IsNewCompletes(t) /\ ~MapHas(seen, arg[t].mac))
          => (/\ newRes'[t]
              /\ MapHas(seen', arg[t].mac)
              /\ seen'[arg[t].mac] = arg[t].counter)]_vars

\* C2 witness: a first call for an identity returned true and recorded the
\* counter while another identity already had an entry.
C2_Witness ==
    \E t \in Callbacks :
        /\ pc[t] = "isNewRet" /\ ~local[t].ok /\ newRes[t]
        /\ MapHas(seen, arg[t].mac) /\ seen[arg[t].mac] = arg[t].counter
        /\ \E m \in DOMAIN seen : m # arg[t].mac

\* C3: an isNew call whose counter equals the stored counter of its identity
\* returns false and changes neither seen nor firstSee.
C3_DuplicateRejected ==
    [][\A t \in Callbacks :
          (IsNewCompletes(t) /\ MapHas(seen, arg[t].mac)
             /\ seen[arg[t].mac] = arg[t].counter)
          => (~newRes'[t] /\ seen' = seen /\ firstSee' = firstSee)]_vars

\* C3 witness: a call with the stored counter returned false.
C3_Witness ==
    \E t \in Callbacks :
        /\ pc[t] = "isNewRet" /\ local[t].ok /\ local[t].last = arg[t].counter
        /\ ~newRes[t]
        /\ seen[arg[t].mac] = arg[t].counter

\* C4: an isNew call for a known identity with a counter other than the stored
\* one returns true and stores the new counter, also when the new counter is
\* lower than the stored one or wraps from 65535 to 0.
C4_DifferentCounterAdmitted ==
    [][\A t \in Callbacks :
          (IsNewCompletes(t) /\ MapHas(seen, arg[t].mac)
             /\ seen[arg[t].mac] # arg[t].counter)
          => (newRes'[t] /\ seen'[arg[t].mac] = arg[t].counter)]_vars

\* C4 witness: the wrap from 65535 to 0 was accepted and stored.
C4_Witness ==
    \E t \in Callbacks :
        /\ pc[t] = "isNewRet" /\ local[t].ok /\ local[t].last = 65535
        /\ arg[t].counter = 0 /\ newRes[t]
        /\ seen[arg[t].mac] = 0

\* C5: of the isFirstDiscovery calls for one identity, in the order in which
\* they return, the first returns true and every later one returns false.
C5_FirstDiscoveryOnce ==
    \A m \in Macs : \A i \in 1..Len(fdHist[m]) : fdHist[m][i] = (i = 1)

\* C5 witness: two calls for one identity were in flight at the same time; one
\* has returned true and the other has read the map after it.
C5_Witness ==
    \E t \in Callbacks, u \in Callbacks :
        /\ t # u /\ arg[t].mac = arg[u].mac
        /\ pc[t] = "fdRet" /\ fdRes[t]
        /\ pc[u] = "fdRet" /\ ~fdRes[u]
        /\ fdHist[arg[t].mac] = <<TRUE, FALSE>>

AfterAdmit == {"fdLock", "fdCmp", "fdRet", "dcStore", "announce", "print"}

\* C6: with -all unset a callback reaches isFirstDiscovery and printReading
\* only after isNew returned true, and after a false it continues with the
\* next entry; an isNew call made when the stored counter of the MAC is the
\* advertisement's counter returns false.  With -all set isNew is never
\* called and a parsed advertisement goes on to be printed.
C6_DedupFilter ==
    /\ [](\A t \in Callbacks :
            /\ (~showAll /\ pc[t] \in AfterAdmit) => newRes[t]
            /\ showAll => pc[t] \notin IsNewPcs \cup {"isNewRet"})
    /\ [][\A t \in Callbacks :
            /\ (pc[t] = "isNewRet" /\ ~newRes[t] /\ pc'[t] # pc[t])
               => (pc'[t] = "loop" /\ idx'[t] = idx[t] + 1 /\ out' = out)
            /\ (IsNewCompletes(t) /\ MapHas(seen, arg[t].mac)
                  /\ seen[arg[t].mac] = arg[t].counter)
               => ~newRes'[t]
            /\ (pc[t] = "loop" /\ pc'[t] # pc[t] /\ HasEntry(t)
                  /\ Parsed(t).kind = "reading")
               => pc'[t] = (IF showAll THEN "fdLock" ELSE "isNewLock")
            /\ (pc[t] \in AfterAdmit /\ pc'[t] # pc[t])
               => (pc'[t] \in AfterAdmit
                   \/ (pc[t] = "print" /\ pc'[t] = "loop"
                       /\ out' = Append(out, Event("reading", Rd(t).MAC,
                                                   Rd(t).SampleCounter))))]_vars

\* C6 witness: with -all unset an advertisement was suppressed whose MAC and
\* counter had been accepted and printed before.
C6_Witness ==
    \E t \in Callbacks :
        /\ ~showAll /\ HasEntry(t)
        /\ pc[t] = "isNewRet" /\ ~newRes[t]
        /\ \E i \in 1..Len(out) :
              out[i] = Event("reading", arg[t].mac, arg[t].counter)

\* C7: a payload shorter than 15 bytes gives an error that carries the length
\* and no Reading, for every model byte.
C7_TooShortError ==
    (pOut # NoOutput /\ Len(pIn.data) < 15)
    => (pOut.kind = "error" /\ pOut.got = Len(pIn.data))

\* C7 witness: a 14-byte payload of a known model was refused.
C7_Witness ==
    /\ pOut.kind = "error"
    /\ pOut.got = 14
    /\ pIn.data[1] = modelW3

\* C8: a payload of 15 bytes or more gives a Reading for every model byte, and
\* a field whose bytes are missing stays unset: the second weight pair below
\* 19 bytes, the swarm state below 20, the realtime weight below 21.
C8_OptionalTail ==
    (pOut # NoOutput /\ Len(pIn.data) >= 15)
    => /\ pOut.kind = "reading"
       /\ Len(pIn.data) < 19
          => /\ ~pOut.reading.Has4Cell
             /\ pOut.reading.WeightLeft2 = 0
             /\ pOut.reading.WeightRight2 = 0
       /\ Len(pIn.data) < 20
          => (~pOut.reading.HasSwarm /\ pOut.reading.SwarmState = 0)
       /\ Len(pIn.data) < 21 => pOut.reading.RealtimeWeight = 0

\* C8 witness: a swarm model's 19-byte payload was parsed, the swarm state
\* left unset.
C8_Witness ==
    /\ pOut.kind = "reading"
    /\ Len(pIn.data) = 19
    /\ pIn.data[1] = modelT2
    /\ ~pOut.reading.HasSwarm

\* C9: the callback's step on a BroodMinder entry shorter than 15 bytes only
\* writes the warning and moves to the next entry: the tracker, the device
\* count and every other callback are as before, and no reading is printed.
C9_ShortPayloadDropped ==
    [][\A t \in Callbacks :
          (/\ pc[t] = "loop" /\ HasEntry(t)
           /\ Entry(t).CompanyID = broodMinderManufacturerID
           /\ Len(Entry(t).Data) < 15
           /\ (pc'[t] # pc[t] \/ idx'[t] # idx[t]))
          => (/\ pc'[t] = "loop" /\ idx'[t] = idx[t] + 1
              /\ result'[t] = result[t]
              /\ out' = Append(out, Event("warning", result[t].Address,
                                          Len(Entry(t).Data)))
              /\ UNCHANGED <<seen, firstSee, mu, deviceCount, arg, newRes, fdRes,
                             local, ctxDone, scanStopped, delivered>>
              /\ \A u \in Callbacks \ {t} : pc'[u] = pc[u])]_vars

\* C9 witness: after the warning for a short payload, the next entry's
\* advertisement was accepted and printed.
C9_Witness ==
    \E i \in 1..Len(out) : \E j \in 1..Len(out) :
        /\ i < j
        /\ out[i].kind = "warning"
        /\ out[j].kind = "reading"
        /\ MapHas(seen, out[j].mac) /\ seen[out[j].mac] = out[j].n

\* C10: once the duration timer has fired, the program reaches "Scan complete".
C10_DurationStops == (durationSet /\ timerPc = "fired") ~> (mainPc = "done")

\* C10 witness: the timer has fired and cancelled the context, no callback is
\* running, StopScan was not called and the program is still in adapter.Scan.
C10_Witness ==
    /\ durationSet /\ timerPc = "fired" /\ ctxDone
    /\ AllIdle /\ ~scanStopped
    /\ mainPc = "scan"

\* the positions of a callback that has passed the cancellation check
PastCheck == {"loop", "isNewLock", "isNewCmp", "isNewRet", "fdLock", "fdCmp", "fdRet",
              "dcStore", "announce", "print"}

\* C11: a callback that makes its cancellation check after the context was
\* cancelled calls StopScan and returns, with the tracker, the device count
\* and the output as they were; a callback that passed the check is not cut
\* short by a cancel: it returns only when its for-range is exhausted, and
\* until then it always has a next step to take, cancelled or not, unless it
\* waits for the tracker's mutex, whose holder is about to release it.
C11_CancelStopsNewCallbacks ==
    /\ [][\A t \in Callbacks :
            /\ (pc[t] = "ctxCheck" /\ ctxDone /\ pc'[t] # pc[t])
               => (/\ pc'[t] = "idle" /\ scanStopped'
                   /\ UNCHANGED <<seen, firstSee, deviceCount, out, arg, mu>>)
            /\ (pc[t] \in PastCheck /\ pc'[t] = "idle")
               => (pc[t] = "loop" /\ idx[t] > Len(result[t].ManufacturerData))]_vars
    /\ [](\A t \in Callbacks :
            pc[t] \in PastCheck
            => \/ ENABLED (CallbackStep(t) \/ TrackerStep(t))
               \/ /\ pc[t] \in {"isNewLock", "fdLock"}
                  /\ mu \in Callbacks \ {t}
                  /\ pc[mu] \in {"isNewCmp", "fdCmp"})

\* C11 witness: after the cancel one callback has stopped the scan while
\* another, which had passed the check before, is about to print its reading.
C11_Witness ==
    /\ ctxDone /\ scanStopped
    /\ \E t \in Callbacks : pc[t] = "print"

\* C12: no Reading has both Has4Cell and HasSwarm; a swarm model has no
\* second weight pair decoded and a four-cell model no swarm state, whatever
\* the bytes at offsets 15-20 are.
C12_ExtendedExclusive ==
    (pOut # NoOutput /\ pOut.kind = "reading")
    => LET r == pOut.reading
       IN  /\ ~(r.Has4Cell /\ r.HasSwarm)
           /\ r.ModelByte \in swarmModels
              => (~r.Has4Cell /\ r.WeightLeft2 = 0 /\ r.WeightRight2 = 0)
           /\ r.ModelByte \in fourCellWeightModels
              => (~r.HasSwarm /\ r.SwarmState = 0)

\* C12 witness: a W3 payload of 21 bytes with a non-zero byte at offset 19
\* has its second weight pair decoded and no swarm state.
C12_Witness ==
    /\ pOut # NoOutput /\ pOut.kind = "reading"
    /\ pOut.reading.ModelByte = modelW3
    /\ Len(pIn.data) = 21 /\ pIn.data[20] # 0
    /\ pOut.reading.Has4Cell /\ ~pOut.reading.HasSwarm
    /\ pOut.reading.SwarmState = 0

\* a raw weight that decodes to a value: a weight model and no sentinel
ValidRaw(model, raw) == model \in weightModels /\ raw \notin {32767, 32773, 65535}

\* a pair is whole when both raw values are valid and both fields hold their
\* decoded values, or when the pair is absent
WholePair(has, left, right, model, rawL, rawR) ==
    \/ /\ has
       /\ ValidRaw(model, rawL) /\ left = rawL - 32767
       /\ ValidRaw(model, rawR) /\ right = rawR - 32767
    \/ ~has /\ left = 0 /\ right = 0

\* C13: in every Reading the weights of a cell pair are both valid decoded
\* values or both absent, and weight is present only for the weight models.
C13_WeightGroup ==
    (pOut # NoOutput /\ pOut.kind = "reading")
    => LET r == pOut.reading
           d == pIn.data
       IN  /\ WholePair(r.HasWeight, r.WeightLeft, r.WeightRight, r.ModelByte,
                        d[11] + 256 * d[12], d[13] + 256 * d[14])
           /\ Len(d) >= 19
              => WholePair(r.Has4Cell, r.WeightLeft2, r.WeightRight2, r.ModelByte,
                           d[16] + 256 * d[17], d[18] + 256 * d[19])
           /\ r.HasWeight => r.ModelByte \in {modelW, modelWPlus, modelW3, modelDIY}
           /\ r.Has4Cell => r.ModelByte \in {modelW, modelWPlus, modelW3, modelDIY}

\* C13 witness: a W+ payload with left raw 33767 and right raw 0xFFFF gives a
\* Reading with HasWeight, a left weight of 10.00 and a right weight of 0.
C13_Witness ==
    /\ pOut # NoOutput /\ pOut.kind = "reading"
    /\ pOut.reading.ModelByte = modelWPlus
    /\ pIn.data[13] + 256 * pIn.data[14] = 65535
    /\ pOut.reading.HasWeight
    /\ pOut.reading.WeightLeft = 1000 /\ pOut.reading.WeightRight = 0
    /\ pOut.reading.WeightTotal = 1000

\* C14: parseWeight is valid exactly for a weight model with a raw value that
\* is none of 0x7FFF, 0x8005, 0xFFFF; a valid result is raw - 32767 hundredths
\* of a kg, an invalid one is 0; every model byte and raw value has a result.
C14_ParseWeight ==
    (pOut # NoOutput /\ pOut.kind = "weight")
    => /\ pOut.ok <=> (/\ pIn.model \in {43, 49, 57, 58}
                       /\ pIn.raw \notin {32767, 32773, 65535})
       /\ pOut.ok => pOut.kg = pIn.raw - 32767
       /\ ~pOut.ok => pOut.kg = 0

\* C14 witness: a weight model's raw value below 32767 decoded to a negative
\* weight.
C14_Witness ==
    /\ pOut # NoOutput /\ pOut.kind = "weight"
    /\ pIn.model = modelDIY /\ pIn.raw = 32000
    /\ pOut.ok /\ pOut.kg = -767

\* C18: parseTemperature gives 0 for raw 0xFFFF whatever the model; for a
\* model outside {41, 42, 43} and a raw value up to 65534 it gives raw - 5000
\* hundredths of a degree; and the Readings of payloads with that model and
\* raw value hold that one temperature for every firmware byte and length.
C18_ParseTemperature ==
    (pOut # NoOutput /\ pOut.kind = "temperature")
    => /\ pIn.raw = 65535 => pOut.value = 0
       /\ (pIn.model \notin {41, 42, 43} /\ pIn.raw <= 65534)
          => (/\ pOut.value = 16384 * (pIn.raw - 5000)
              /\ pOut.readings = {pIn.raw - 5000})
       /\ \E c \in pOut.readings :
             /\ pOut.readings = {c}
             /\ 2 * 16384 * c - 16384 <= 2 * pOut.value
             /\ 2 * pOut.value <= 2 * 16384 * c + 16384

\* C18 witness: a T2 raw value of 7200 decoded to 22.00 degrees, in
\* parseTemperature and in every Reading parsed from it.
C18_Witness ==
    /\ pOut # NoOutput /\ pOut.kind = "temperature"
    /\ pIn.model = modelT2 /\ pIn.raw = 7200
    /\ pOut.value = 2200 * 16384
    /\ pOut.readings = {2200}

\* the display strings of the twelve known codes
KnownNames ==
    [m \in {41, 42, 43, 47, 49, 52, 54, 56, 57, 58, 60, 63} |->
        CASE m = 41 -> "T" [] m = 42 -> "TH" [] m = 43 -> "W" [] m = 47 -> "T2"
          [] m = 49 -> "W3" [] m = 52 -> "SubHub" [] m = 54 -> "Hub4G"
          [] m = 56 -> "TH2" [] m = 57 -> "W+" [] m = 58 -> "DIY"
          [] m = 60 -> "HubWF" [] m = 63 -> "BeeDar"]

\* C19: modelName gives each of the twelve known codes its display string and
\* every other byte N the string "?(N)" with N in decimal; the Model of a
\* Reading is modelName of its ModelByte, the first byte of the payload.
C19_ModelName ==
    (pOut # NoOutput /\ pOut.kind = "name")
    => /\ pIn.model \in DOMAIN KnownNames => pOut.name = KnownNames[pIn.model]
       /\ pIn.model \notin DOMAIN KnownNames
          => pOut.name = "?(" \o ToString(pIn.model) \o ")"
       /\ pOut.reading.ModelByte = pIn.model
       /\ pOut.reading.Model = pOut.name

\* C19 witness: the unknown code 7 is named "?(7)", in modelName and in the
\* Reading.
C19_Witness ==
    /\ pOut # NoOutput /\ pOut.kind = "name"
    /\ pIn.model = 7
    /\ pOut.name = "?(7)"
    /\ pOut.reading.Model = "?(7)"

\* C15: a model of the no-humidity set (T, T2, W3, SubHub) has HasHumidity
\* false and HumidityPct 0 whatever the humidity byte is; a Reading with
\* HasHumidity is of a model outside that set.
C15_NoHumidityModels ==
    (pOut # NoOutput /\ pOut.kind = "reading")
    => LET r == pOut.reading
       IN  /\ r.ModelByte \in {41, 47, 49, 52}
              => (~r.HasHumidity /\ r.HumidityPct = 0)
           /\ r.HasHumidity => r.ModelByte \notin {41, 47, 49, 52}

\* C15 witness: a SubHub payload with humidity byte 64 has no humidity.
C15_Witness ==
    /\ pOut # NoOutput /\ pOut.kind = "reading"
    /\ pOut.reading.ModelByte = modelSubHub
    /\ pIn.data[15] = 64
    /\ ~pOut.reading.HasHumidity /\ pOut.reading.HumidityPct = 0

\* C16: BatteryPercent is the battery byte when that is at most 100 and 100
\* otherwise, so it lies in 0..100.
C16_BatteryClamped ==
    (pOut # NoOutput /\ pOut.kind = "reading")
    => /\ pOut.reading.BatteryPercent =
             (IF pIn.data[5] <= 100 THEN pIn.data[5] ELSE 100)
       /\ pOut.reading.BatteryPercent \in 0..100

\* C16 witness: a battery byte of 101 was clamped to 100.
C16_Witness ==
    /\ pOut # NoOutput /\ pOut.kind = "reading"
    /\ pIn.data[5] = 101
    /\ pOut.reading.BatteryPercent = 100

C20_WeightTotal ==
    (pOut # NoOutput /\ pOut.kind = "reading")
    => LET r == pOut.reading
           d == pIn.data
           valid(lo) == d[lo + 1] + 256 * d[lo + 2] \notin {32767, 32773, 65535}
       IN  /\ (/\ r.ModelByte \in {modelW3, modelDIY}
               /\ Len(d) >= 19
               /\ valid(10) /\ valid(12) /\ valid(15) /\ valid(17))
              => r.WeightTotal =
                   r.WeightLeft + r.WeightRight + r.WeightLeft2 + r.WeightRight2
           /\ r.ModelByte \in {modelW, modelWPlus}
              => r.WeightTotal = r.WeightLeft + r.WeightRight

\* C20 witness: a W3 payload with four weights of 10.00 kg has a total of
\* 40.00 kg.
C20_Witness ==
    /\ pOut # NoOutput /\ pOut.kind = "reading"
    /\ pOut.reading.ModelByte = modelW3
    /\ Len(pIn.data) = 21
    /\ pOut.reading.WeightLeft = 1000 /\ pOut.reading.WeightRight = 1000
    /\ pOut.reading.WeightLeft2 = 1000 /\ pOut.reading.WeightRight2 = 1000
    /\ pOut.reading.WeightTotal = 4000

\* the step of goroutine t that completes its isFirstDiscovery call
FdCompletes(t) == pc[t] = "fdCmp" /\ pc'[t] = "fdRet"

\* two maps agree on every key but k
SameExcept(m1, m2, k) ==
    \A x \in (DOMAIN m1 \cup DOMAIN m2) \ {k} :
        x \in DOMAIN m1 /\ x \in DOMAIN m2 /\ m1[x] = m2[x]

\* C21: an isNew call leaves firstSee and the seen entries of the other
\* identities as they are, and its result is decided by the latest isNew
\* call of its own identity alone; an isFirstDiscovery call leaves seen and
\* the firstSee entries of the other identities as they are, and its result
\* is decided by the earlier isFirstDiscovery calls of its identity alone.
C21_TrackerIndependence ==
    [][\A t \in Callbacks :
          /\ IsNewCompletes(t)
             => (/\ firstSee' = firstSee
                 /\ SameExcept(seen, seen', arg[t].mac)
                 /\ newRes'[t] = (newHist[arg[t].mac].last # arg[t].counter))
          /\ FdCompletes(t)
             => (/\ seen' = seen
                 /\ SameExcept(firstSee, firstSee', arg[t].mac)
                 /\ fdRes'[t] = (fdHist[arg[t].mac] = <<>>))]_vars

\* C21 witness: isFirstDiscovery returned true for an identity that isNew
\* had already recorded, while another identity has an entry in seen.
C21_Witness ==
    \E t \in Callbacks :
        /\ pc[t] = "fdRet" /\ fdRes[t]
        /\ MapHas(seen, arg[t].mac)
        /\ \E m \in Macs \ {arg[t].mac} : MapHas(seen, m)

\* C22: no tracker step removes an entry of seen or of firstSee, and a
\* firstSee entry that is true stays true.
C22_EntriesOnlyAdded ==
    [][\A m \in Macs :
          /\ MapHas(seen, m) => MapHas(seen', m)
          /\ MapHas(firstSee, m) => MapHas(firstSee', m)
          /\ MapBool(firstSee, m) => MapBool(firstSee', m)]_vars

\* C22 witness: an isNew call was rejected for an identity that has an entry
\* in both maps, and both entries are still there.
C22_Witness ==
    \E t \in Callbacks :
        /\ pc[t] = "isNewRet" /\ ~newRes[t]
        /\ MapHas(seen, arg[t].mac) /\ MapBool(firstSee, arg[t].mac)

\* C30: the counter stored for an identity is the counter of the latest
\* isNew call of that identity to return, whatever it returned, and the
\* counter of the latest one that returned true; an identity has an entry
\* exactly when isNew was called for it.
C30_StoredCounter ==
    \A m \in Macs :
        /\ MapHas(seen, m) <=> newHist[m].last # -1
        /\ MapHas(seen, m)
           => (seen[m] = newHist[m].last /\ seen[m] = newHist[m].lastTrue)

\* C30 witness: the latest call for an identity returned false and its
\* counter, 65535, is the stored one.
C30_Witness ==
    \E t \in Callbacks :
        /\ pc[t] = "isNewRet" /\ ~newRes[t] /\ arg[t].counter = 65535
        /\ newHist[arg[t].mac] = [last |-> 65535, lastTrue |-> 65535]
        /\ seen[arg[t].mac] = 65535

\* the positions of a callback inside or just after a tracker call
TrackerPcs == {"isNewLock", "isNewCmp", "isNewRet", "fdLock", "fdCmp", "fdRet"}

\* the number of true returns in a history of isFirstDiscovery returns
TrueCount(h) == Cardinality({i \in 1..Len(h) : h[i]})

\* C23: the tracker is called with the upper-case address of the scan
\* result and holds upper-case keys only; an advertisement whose upper-case
\* address and sample counter are the stored ones is suppressed, whatever the
\* case of its address; and isFirstDiscovery returns true once per
\* upper-case address.
C23_IdentityUppercased ==
    /\ [](/\ \A t \in Callbacks :
               pc[t] \in TrackerPcs
               => arg[t].mac = [i \in 1..Len(result[t].Address) |->
                                  IF result[t].Address[i] \in 97..122
                                  THEN result[t].Address[i] - 32
                                  ELSE result[t].Address[i]]
          /\ \A m \in DOMAIN seen \cup DOMAIN firstSee :
               \A i \in 1..Len(m) : m[i] \notin 97..122
          /\ \A m \in DOMAIN fdHist : TrueCount(fdHist[m]) <= 1
          /\ TrueCount(fdHist[<<65, 49>>]) = 1 => <<97, 49>> \notin DOMAIN fdHist)
    /\ [][\A t \in Callbacks :
            (/\ IsNewCompletes(t)
             /\ result[t].Address \in {<<97, 49>>, <<65, 49>>}
             /\ MapHas(seen, <<65, 49>>)
             /\ seen[<<65, 49>>] = Entry(t).Data[6] + 256 * Entry(t).Data[7])
            => ~newRes'[t]]_vars

\* C23 witness: after the advertisement of "A1" with counter 0 was printed
\* and the device discovered, the one of "a1" with counter 0 was suppressed.
C23_Witness ==
    \E t \in Callbacks :
        /\ result[t].Address = <<97, 49>>
        /\ pc[t] = "isNewRet" /\ ~newRes[t]
        /\ \E i \in 1..Len(out) : out[i] = Event("reading", <<65, 49>>, 0)
        /\ fdHist[<<65, 49>>] = <<TRUE>>
        /\ DOMAIN seen = {<<65, 49>>}

\* C24: for every value v, a payload whose bytes 5 and 6 hold v as
\* buildPayload writes it has SampleCounter = v, whatever the model, the
\* other bytes and the length.
C24_SampleCounterRoundTrip ==
    (pOut # NoOutput /\ pOut.kind = "counter") => pOut.counters = {pIn.raw}

\* C24 witness: the value 500 (bytes 244 and 1) came back as 500.
C24_Witness ==
    /\ pOut # NoOutput /\ pOut.kind = "counter"
    /\ pIn.raw = 500
    /\ pOut.counters = {500}

\* C29: every Reading of parseAdvertisement with Has4Cell set has HasWeight
\* set.
C29_FourCellImpliesWeight ==
    (pOut # NoOutput /\ pOut.kind = "reading")
    => (pOut.reading.Has4Cell => pOut.reading.HasWeight)

\* C29 witness: a W3 payload whose first pair is 0x8005 / 0xFFFF and whose
\* second pair is 33767 / 0x7FFF gives a Reading with Has4Cell, a second left
\* weight of 10.00 and no HasWeight.
C29_Witness ==
    /\ pOut # NoOutput /\ pOut.kind = "reading"
    /\ pOut.reading.ModelByte = modelW3
    /\ LittleEndianUint16(pIn.data, 10) = 32773
    /\ LittleEndianUint16(pIn.data, 12) = 65535
    /\ pOut.reading.Has4Cell /\ ~pOut.reading.HasWeight
    /\ pOut.reading.WeightLeft2 = 1000 /\ pOut.reading.WeightTotal = 1000

\* the two raw values of a pair are both valid or both a sentinel
SamePair(rawL, rawR) == is_weight_sentinel(rawL) <=> is_weight_sentinel(rawR)

\* the weight decision and total of the Go Reading r are those of the
\* shell result s
SameWeight(r, s) ==
    /\ r.HasWeight = s.has_weight
    /\ r.Has4Cell = s.has_4cell
    /\ r.WeightTotal = s.weight_total

\* C26: for every payload of a weight model that parseAdvertisement turns
\* into a Reading, parse_reading of the shell script decides has_weight and
\* has_4cell as the Reading's HasWeight and Has4Cell, and has the same total.
C26_ShellWeightAgrees ==
    (/\ pOut # NoOutput /\ pOut.kind = "reading"
     /\ pOut.reading.ModelByte \in weightModels)
    => /\ parse_reading_weight(pIn.data).kind = "reading"
       /\ SameWeight(pOut.reading, parse_reading_weight(pIn.data))

\* C26 witness: a W+ payload with the raw weights 33767 / 0xFFFF, for which
\* the Go Reading has HasWeight and a total of 10.00 while the script has
\* has_weight false and a total of 0.
C26_Witness ==
    /\ pOut # NoOutput /\ pOut.kind = "reading"
    /\ pOut.reading.ModelByte = modelWPlus
    /\ LittleEndianUint16(pIn.data, 10) = 33767
    /\ LittleEndianUint16(pIn.data, 12) = 65535
    /\ pOut.reading.HasWeight /\ pOut.reading.WeightTotal = 1000
    /\ ~parse_reading_weight(pIn.data).has_weight
    /\ parse_reading_weight(pIn.data).weight_total = 0

\* outside the pairs with one valid and one sentinel value the two
\* implementations agree, and they agree on the payloads both refuse
C26_AgreesOnWholePairs ==
    /\ (pOut # NoOutput /\ pOut.kind = "error")
       => parse_reading_weight(pIn.data).kind = "error"
    /\ (/\ pOut # NoOutput /\ pOut.kind = "reading"
        /\ SamePair(LittleEndianUint16(pIn.data, 10), LittleEndianUint16(pIn.data, 12))
        /\ Len(pIn.data) >= 19
           => SamePair(LittleEndianUint16(pIn.data, 15),
                       LittleEndianUint16(pIn.data, 17)))
       => /\ parse_reading_weight(pIn.data).kind = "reading"
          /\ SameWeight(pOut.reading, parse_reading_weight(pIn.data))

\* the number of identities for which isFirstDiscovery returned true
Discoveries == Cardinality({m \in DOMAIN fdHist : TrueCount(fdHist[m]) >= 1})

\* C27: when the scan has ended, deviceCount is the number of identities
\* for which isFirstDiscovery returned true, which is the size of firstSee,
\* and it is the count that "Scan complete" reports.
C27_DeviceCountIsDiscoveries ==
    mainPc = "done"
    => /\ deviceCount = Discoveries
       /\ deviceCount = Cardinality(DOMAIN firstSee)
       /\ ~jsonOut => out[Len(out)] = Event("complete", <<>>, Discoveries)

\* C27 witness: the scan ended with two identities in firstSee, each with
\* one true return of isFirstDiscovery, and with deviceCount = 1.
C27_Witness ==
    /\ mainPc = "done"
    /\ Cardinality(DOMAIN firstSee) = 2
    /\ Discoveries = 2
    /\ deviceCount = 1
    /\ ~jsonOut /\ out[Len(out)] = Event("complete", <<>>, 1)

\* no increment is duplicated: deviceCount never exceeds the number of
\* discoveries, which is the size of firstSee
C27_NeverTooMany ==
    /\ deviceCount <= Discoveries
    /\ Discoveries = Cardinality(DOMAIN firstSee)

\* the positions of a callback from the true return of isFirstDiscovery to
\* the announcement
DiscoveryPcs == {"dcStore", "announce"}

\* C28: without -json, every reading in the output is preceded by the
\* discovery announcement of its identity; every printed reading is of an
\* identity marked in firstSee; and a callback that is past line 496 with
\* deduplication on was not suppressed, so that only an accepted
\* advertisement reaches isFirstDiscovery.
C28_DiscoveryBeforeReading ==
    /\ \A i \in 1..Len(out) :
         out[i].kind = "reading"
         => /\ MapHas(firstSee, out[i].mac) /\ firstSee[out[i].mac]
            /\ ~jsonOut => \E j \in 1..(i - 1) :
                              out[j].kind = "discovered" /\ out[j].mac = out[i].mac
    /\ \A t \in Callbacks :
         (pc[t] \in {"fdLock", "fdCmp", "fdRet", "print"} \cup DiscoveryPcs
          /\ DedupEnabled)
         => newRes[t]

\* C28 witness: the reading of "A1" with counter 1 is the first line of the
\* output while the callback that discovered "A1" has not announced it yet.
C28_Witness ==
    /\ ~jsonOut
    /\ Len(out) >= 1 /\ out[1] = Event("reading", <<65, 49>>, 1)
    /\ \E t \in Callbacks :
         pc[t] = "announce" /\ arg[t] = [mac |-> <<65, 49>>, counter |-> 0]

\* the parts of C28 that do not depend on the order of the two outputs
C28_ReadingsAreDiscovered ==
    /\ \A i \in 1..Len(out) :
         out[i].kind = "reading"
         => MapHas(firstSee, out[i].mac) /\ firstSee[out[i].mac]
    /\ \A t \in Callbacks :
         (pc[t] \in {"fdLock", "fdCmp", "fdRet", "print"} \cup DiscoveryPcs
          /\ DedupEnabled)
         => newRes[t]

\* the Go callback and the script are both done with the results delivered
BothDone == pc[1] = "idle" /\ shPkts = <<>>

\* the readings and discovery announcements of an output, without the
\* warnings about payloads that are too short
IsDecision(e) == e.kind \in {"discovered", "reading"}

Decisions(o) == SelectSeq(o, IsDecision)

\* C25: whenever the Go callback and the script have processed the same
\* sequence of scan results one at a time, with or without show-all, they
\* have written the same readings and the same discovery announcements in
\* the same order, so each advertisement was accepted, suppressed and
\* announced by both or by neither; the device counts are equal, and so are
\* the stored counters and the sets of discovered devices.
C25_ShellDedupAgrees ==
    BothDone
    => /\ shOut = Decisions(out)
       /\ DEVICE_COUNT = deviceCount
       /\ SEEN_COUNTERS = seen
       /\ DOMAIN KNOWN_DEVICES = DOMAIN firstSee

\* C25 witness: after "A1" with counter 0 was announced and printed by both,
\* the script has returned from a duplicate reported as "a1" without output,
\* and the Go callback is about to skip it since isNew returned false.
C25_Witness ==
    /\ ~showAll /\ ~jsonOut
    /\ result[1].Address = <<97, 49>>
    /\ pc[1] = "isNewRet" /\ ~newRes[1]
    /\ shPkts = <<>>
    /\ shOut = <<Event("discovered", <<65, 49>>, 1), Event("reading", <<65, 49>>, 0)>>
    /\ out = shOut
    /\ DEVICE_COUNT = 1 /\ deviceCount = 1

====
